---- MODULE Spec2Model ----
(***************************************************************************)
(* bgrep: the scanning/formatting engine (src/src/grep.rs) and the exit   *)
(* status mapping (src/src/main.rs).                                       *)
(*                                                                         *)
(* Two specifications share the operators that model the code:             *)
(*   SpecFormat  one call of run_file on one input, observed step by step  *)
(*               (read, trim, format), with the lines the sink received;   *)
(*   Spec        the loop of run over the list of files, one run_file per  *)
(*               step, then main's mapping of the outcome to a status.     *)
(*                                                                         *)
(* The regex engine is the regex crate's: leftmost-first matching, and     *)
(* find_iter's treatment of zero-length matches.  Patterns are ordered     *)
(* alternations of byte literals, the empty literal included.  The sink    *)
(* takes a line whole or fails on it; a read that fails leaves nothing     *)
(* that is looked at.                                                      *)
(***************************************************************************)
EXTENDS Integers, Sequences, FiniteSets, TLC

VARIABLES
  options,      \* args::Options of the run (case_insensitive lives in `pattern`)
  pattern,      \* the compiled Regex: an ordered alternation of byte literals
  pc,           \* position of the thread of control
  path,         \* SpecFormat: the locator given to run_file
  bytesRead,    \* SpecFormat: what read_to_end delivered (an error or the bytes)
  fail,         \* SpecFormat: when and how the sink fails during this call
  buffer,       \* the scan buffer (Vec<u8>) lent to run_file
  ret,          \* the io::Result<bool> of the last formatter / run_file call
  out,          \* SpecFormat: the lines the sink accepted during this call
  files,        \* Spec: args.files, the ordered locators
  idx,          \* Spec: 1-based position of the `for file in files` loop
  result,       \* Spec: run's accumulator `result`
  status,       \* Spec: the process exit status (-1 until main exits)
  attempts,     \* Spec: per file, how many times run_file was called on it
  lastRead,     \* Spec: how reading the last attempted file ended
  lastFormatted,\* Spec: whether a formatter was invoked on the last attempted file
  matchedAny,   \* Spec: some run_file so far returned Ok(true)
  lastError,    \* Spec: kind of the last non-BrokenPipe Err run_file returned
  errors,       \* Spec: how many run_file calls returned a non-BrokenPipe Err
  brokenPipe    \* Spec: run_file returned Err(BrokenPipe)

vars == <<options, pattern, pc, path, bytesRead, fail, buffer, ret, out, files,
          idx, result, status, attempts, lastRead, lastFormatted, matchedAny,
          lastError, errors, brokenPipe>>

(***************************************************************************)
(* Bounds and constants.                                                   *)
(***************************************************************************)
NL == 10

MaxBuf == 3

MaxLit == 2

MaxFailAt == 2

MaxFiles == 2

MaxRunBuf == 1

Alphabet == {NL, 97}

STDIN == "-"

SeqsUpTo(S, n) == UNION {[1..k -> S] : k \in 0..n}

Buffers == SeqsUpTo(Alphabet, MaxBuf)

Literals(n) == SeqsUpTo(Alphabet, n) \ {<<>>}

\* The patterns explored: a literal `L`, `L|` (L, else the empty string), and
\* the empty pattern.
PatternsUpTo(n) ==
  {<<l>> : l \in Literals(n)} \cup {<<l, <<>>>> : l \in Literals(n)}
    \cup {<< <<>> >>}

Patterns == PatternsUpTo(MaxLit)

\* Spec: no literal longer than the buffers it is matched against
RunPatterns == PatternsUpTo(MaxRunBuf)

Locators == {STDIN, "f"}

\* io::ErrorKind of a failed File::open: the kinds main tells apart, and the rest
OpenErrorKinds ==
  {"NotFound", "PermissionDenied", "InvalidInput", "Interrupted", "Other"}

\* io::ErrorKind of a failed read_to_end, which retries on Interrupted itself
ReadErrorKinds == {"InvalidInput", "Other"}

WriteErrorKinds == {"BrokenPipe", "Other"}

\* The sink fails at its `at`-th line of the call (0: never) with `kind`.
FailPlans ==
  {[at |-> 0, kind |-> "None"]}
    \cup {[at |-> k, kind |-> e] : k \in 1..MaxFailAt, e \in WriteErrorKinds}

(***************************************************************************)
(* io::Result<bool>                                                        *)
(***************************************************************************)
Ok(b) == [tag |-> "Ok", val |-> b, kind |-> "None"]

Err(k) == [tag |-> "Err", val |-> FALSE, kind |-> k]

Xor(a, b) == (a /\ ~b) \/ (~a /\ b)

(***************************************************************************)
(* args::Options as build_args can produce them: `-L` is the only source   *)
(* of non_matching and it is overridden by `-o` and `-b`.                  *)
(***************************************************************************)
OptionsSet ==
  {o \in [inverse : BOOLEAN, trim_ending_newline : BOOLEAN,
          non_matching : BOOLEAN, print_filename : BOOLEAN,
          output : {"FileName", "Bytes", "Offset"}] :
     o.non_matching => o.output = "FileName"}

(***************************************************************************)
(* The regex engine as grep.rs uses it (regex::bytes::Regex): offsets are  *)
(* 0-based, a match is [start, end).                                       *)
(***************************************************************************)
NoMatch == [start |-> -1, end |-> -1]

Slice(text, a, b) == SubSeq(text, a + 1, b)

\* literal `lit` occurs in `text` at offset p
LitAt(text, p, lit) ==
  /\ p + Len(lit) <= Len(text)
  /\ \A k \in 1..Len(lit) : text[p + k] = lit[k]

\* leftmost-first: the first alternative, from the a-th on, that matches at p
\* decides the match
RECURSIVE AltAt(_, _, _, _)
AltAt(pat, text, p, a) ==
  IF a > Len(pat) THEN NoMatch
  ELSE IF LitAt(text, p, pat[a]) THEN [start |-> p, end |-> p + Len(pat[a])]
  ELSE AltAt(pat, text, p, a + 1)

MatchAt(pat, text, p) == AltAt(pat, text, p, 1)

\* Regex::find_at: the leftmost match starting at or after `start`
RECURSIVE find_at(_, _, _)
find_at(pat, text, start) ==
  IF start > Len(text) THEN NoMatch
  ELSE LET m == MatchAt(pat, text, start)
       IN IF m # NoMatch THEN m ELSE find_at(pat, text, start + 1)

\* Regex::is_match
is_match(pat, text) == find_at(pat, text, 0) # NoMatch

\* Matches::next of find_iter: successive non-overlapping matches; an empty
\* match restarts the search one byte further and is dropped when it sits at
\* the end of the previous match.  last_match = -1 stands for None.
RECURSIVE Matches(_, _, _, _)
Matches(pat, text, last_end, last_match) ==
  IF last_end > Len(text) THEN <<>>
  ELSE LET m == find_at(pat, text, last_end) IN
       IF m = NoMatch THEN <<>>
       ELSE IF m.start = m.end
            THEN IF m.end = last_match
                 THEN Matches(pat, text, m.end + 1, last_match)
                 ELSE <<m>> \o Matches(pat, text, m.end + 1, m.end)
            ELSE <<m>> \o Matches(pat, text, m.end, m.end)

\* Regex::find_iter
find_iter(pat, text) == Matches(pat, text, 0, -1)

\* Split::next of Regex::split: the slice before each match, then the rest
RECURSIVE SplitFrom(_, _, _)
SplitFrom(text, ms, last) ==
  IF ms = <<>>
  THEN IF last > Len(text) THEN <<>> ELSE <<Slice(text, last, Len(text))>>
  ELSE <<Slice(text, last, Head(ms).start)>>
         \o SplitFrom(text, Tail(ms), Head(ms).end)

\* Regex::split
split(pat, text) == SplitFrom(text, find_iter(pat, text), 0)

(***************************************************************************)
(* The sink.  A line is written whole or not at all; `label` is the        *)
(* "<path>: " prefix ("" when absent).  `{:x}` is rendered digit by digit. *)
(***************************************************************************)
RECURSIVE HexDigits(_)
HexDigits(x) == IF x < 16 THEN <<x>> ELSE HexDigits(x \div 16) \o <<x % 16>>

RECURSIVE ParseHex(_)
ParseHex(ds) ==
  IF ds = <<>> THEN 0
  ELSE 16 * ParseHex(SubSeq(ds, 1, Len(ds) - 1)) + ds[Len(ds)]

NameLine(name) == [kind |-> "name", label |-> name, body |-> <<>>]

BytesLine(label, bs) == [kind |-> "bytes", label |-> label, body |-> bs]

HexLine(label, x) == [kind |-> "hex", label |-> label, body |-> HexDigits(x)]

\* The writer while a formatter runs: lines accepted, the error that made the
\* formatter return (`?`), and the local `matched`.
Writer0 == [out |-> <<>>, err |-> "None", matched |-> FALSE]

\* one write of a line; after an error the formatter has returned already
WriteLine(w, fl, line) ==
  IF w.err # "None" THEN w
  ELSE IF fl.at = Len(w.out) + 1 THEN [w EXCEPT !.err = fl.kind]
  ELSE [w EXCEPT !.out = Append(@, line)]

\* `matched = true` after a write that did not return
Mark(w) == IF w.err = "None" THEN [w EXCEPT !.matched = TRUE] ELSE w

\* `for x in rest { write(x)?; }`
RECURSIVE WriteAll(_, _, _)
WriteAll(w, fl, lines) ==
  IF lines = <<>> THEN w
  ELSE WriteAll(WriteLine(w, fl, Head(lines)), fl, Tail(lines))

Finish(w) ==
  [res |-> IF w.err # "None" THEN Err(w.err) ELSE Ok(w.matched), out |-> w.out]

Label(opts, name) == IF opts.print_filename THEN name ELSE ""

(***************************************************************************)
(* grep_filename                                                           *)
(***************************************************************************)
\* a bug: `>=` for `>`, so two adjacent matches count as a hole
RECURSIVE HoleSearch_GE(_, _)
HoleSearch_GE(ms, end) ==
  IF ms = <<>> THEN [found |-> FALSE, end |-> end]
  ELSE IF Head(ms).start >= end THEN [found |-> TRUE, end |-> Head(ms).end]
  ELSE HoleSearch_GE(Tail(ms), Head(ms).end)

\* `matches.find(|m| { let matched = m.start() > end; end = m.end(); matched })`
RECURSIVE HoleSearch(_, _)
HoleSearch(ms, end) ==
  IF ms = <<>> THEN [found |-> FALSE, end |-> end]
  ELSE IF Head(ms).start > end THEN [found |-> TRUE, end |-> Head(ms).end]
  ELSE HoleSearch(Tail(ms), Head(ms).end)

\* a bug: the hole after the last match is not looked for
filename_matched_NoTrailingHole(opts, pat, buf) ==
  IF opts.inverse
  THEN Xor(HoleSearch(find_iter(pat, buf), 0).found, opts.non_matching)
  ELSE Xor(is_match(pat, buf), opts.non_matching)

\* the local `matched` of grep_filename, in either branch
filename_matched(opts, pat, buf) ==
  IF opts.inverse
  THEN LET h == HoleSearch(find_iter(pat, buf), 0)
       IN Xor(h.found \/ h.end < Len(buf), opts.non_matching)
  ELSE Xor(is_match(pat, buf), opts.non_matching)

grep_filename(opts, pat, name, buf, fl) ==
  LET matched == filename_matched(opts, pat, buf)
      w == IF matched THEN WriteLine(Writer0, fl, NameLine(name)) ELSE Writer0
  IN Finish([w EXCEPT !.matched = matched])

(***************************************************************************)
(* grep_bytes                                                              *)
(***************************************************************************)
NonEmpty(pieces) == SelectSeq(pieces, LAMBDA bs : bs # <<>>)

AsLines(opts, name, chunks) ==
  [i \in 1..Len(chunks) |-> BytesLine(Label(opts, name), chunks[i])]

AsBytes(buf, ms) == [i \in 1..Len(ms) |-> Slice(buf, ms[i].start, ms[i].end)]

\* a bug: the forward branch drops empty matches as the inverse branch drops
\* empty pieces
grep_bytes_SkipEmpty(opts, pat, name, buf, fl) ==
  LET chunks == IF opts.inverse THEN split(pat, buf)
                ELSE AsBytes(buf, find_iter(pat, buf))
      kept   == NonEmpty(chunks)
  IN Finish(WriteAll([Writer0 EXCEPT !.matched = kept # <<>>], fl,
                     AsLines(opts, name, kept)))

grep_bytes(opts, pat, name, buf, fl) ==
  IF opts.inverse
  THEN LET pieces == split(pat, buf)
           first  == IF pieces # <<>> /\ Head(pieces) # <<>>
                     THEN Mark(WriteLine(Writer0, fl,
                                 BytesLine(Label(opts, name), Head(pieces))))
                     ELSE Writer0
           rest   == IF pieces = <<>> THEN <<>> ELSE NonEmpty(Tail(pieces))
       IN Finish(WriteAll(first, fl, AsLines(opts, name, rest)))
  ELSE LET ms    == AsBytes(buf, find_iter(pat, buf))
           first == IF ms # <<>>
                    THEN Mark(WriteLine(Writer0, fl,
                                BytesLine(Label(opts, name), Head(ms))))
                    ELSE Writer0
           rest  == IF ms = <<>> THEN <<>> ELSE Tail(ms)
       IN Finish(WriteAll(first, fl, AsLines(opts, name, rest)))

(***************************************************************************)
(* grep_offset                                                             *)
(***************************************************************************)
\* a bug: the hole after the last match is not reported
RECURSIVE OffsetHoles_NoTrailing(_, _, _, _, _, _)
OffsetHoles_NoTrailing(w, fl, label, ms, end, len) ==
  IF ms = <<>> THEN w
  ELSE LET m  == Head(ms)
           w1 == IF m.start > end
                 THEN Mark(WriteLine(w, fl, HexLine(label, end)))
                 ELSE w
       IN OffsetHoles_NoTrailing(w1, fl, label, Tail(ms), m.end, len)

\* the inverse loop and the check after it: `end` starts at 0
RECURSIVE OffsetHoles(_, _, _, _, _, _)
OffsetHoles(w, fl, label, ms, end, len) ==
  IF ms = <<>>
  THEN IF end < len THEN Mark(WriteLine(w, fl, HexLine(label, end))) ELSE w
  ELSE LET m  == Head(ms)
           w1 == IF m.start > end
                 THEN Mark(WriteLine(w, fl, HexLine(label, end)))
                 ELSE w
       IN OffsetHoles(w1, fl, label, Tail(ms), m.end, len)

StartLines(opts, name, ms) ==
  [i \in 1..Len(ms) |-> HexLine(Label(opts, name), ms[i].start)]

grep_offset(opts, pat, name, buf, fl) ==
  LET ms == find_iter(pat, buf) IN
  IF opts.inverse
  THEN Finish(OffsetHoles(Writer0, fl, Label(opts, name), ms, 0, Len(buf)))
  ELSE LET first == IF ms # <<>>
                    THEN Mark(WriteLine(Writer0, fl,
                                HexLine(Label(opts, name), Head(ms).start)))
                    ELSE Writer0
           rest  == IF ms = <<>> THEN <<>> ELSE Tail(ms)
       IN Finish(WriteAll(first, fl, StartLines(opts, name, rest)))

(***************************************************************************)
(* run_file                                                                *)
(***************************************************************************)
DisplayName(p) == IF p = STDIN THEN "<stdin>" ELSE p

\* What opening and reading a locator can deliver.  Standard input is not
\* opened, so it cannot fail to open.
ReadOk(bs) == [kind |-> "ok", err |-> "None", bytes |-> bs]

ReadOutcomes(p, bufs) ==
  {ReadOk(bs) : bs \in bufs}
    \cup {[kind |-> "readerr", err |-> e, bytes |-> <<>>] : e \in ReadErrorKinds}
    \cup (IF p = STDIN THEN {}
          ELSE {[kind |-> "openerr", err |-> e, bytes |-> <<>>] :
                  e \in OpenErrorKinds})

\* a bug: every trailing newline is trimmed, not just one
Trimmed_All(opts, bs) ==
  IF opts.trim_ending_newline /\ bs # <<>> /\ bs[Len(bs)] = NL
  THEN LET k == CHOOSE k \in 0..Len(bs) :
                  /\ \A j \in (k + 1)..Len(bs) : bs[j] = NL
                  /\ (k > 0 => bs[k] # NL)
       IN SubSeq(bs, 1, k)
  ELSE bs

\* `if options.trim_ending_newline && buffer.last() == Some(&b'\n') { buffer.pop(); }`
Trimmed(opts, bs) ==
  IF opts.trim_ending_newline /\ bs # <<>> /\ bs[Len(bs)] = NL
  THEN SubSeq(bs, 1, Len(bs) - 1)
  ELSE bs

\* `match options.output { ... }`
Format(opts, pat, name, view, fl) ==
  CASE opts.output = "FileName" -> grep_filename(opts, pat, name, view, fl)
    [] opts.output = "Bytes"    -> grep_bytes(opts, pat, name, view, fl)
    [] opts.output = "Offset"   -> grep_offset(opts, pat, name, view, fl)

run_file(opts, pat, p, rd, fl) ==
  IF rd.kind # "ok"
  THEN [res |-> Err(rd.err), out |-> <<>>, formatted |-> FALSE, buffer |-> rd.bytes]
  ELSE LET view == Trimmed(opts, rd.bytes)
           f    == Format(opts, pat, DisplayName(p), view, fl)
       IN [res |-> f.res, out |-> f.out, formatted |-> TRUE, buffer |-> view]

(***************************************************************************)
(* run: the fold of the per-file results, and main's exit status           *)
(***************************************************************************)
\* `result.map(|_| true)`
MapTrue(res) == IF res.tag = "Ok" THEN Ok(TRUE) ELSE res

\* a bug: a match overrides an error recorded earlier
run_fold_MatchWins(res, r) ==
  IF r.tag = "Ok" THEN (IF r.val THEN Ok(TRUE) ELSE res)
  ELSE IF r.kind = "BrokenPipe" THEN MapTrue(res) ELSE r

\* a bug: BrokenPipe is stored like any other error
run_fold_PipeIsError(res, r) ==
  IF r.tag = "Ok" THEN (IF r.val THEN MapTrue(res) ELSE res) ELSE r

\* a bug: the first error is kept, later ones are dropped
run_fold_KeepFirstError(res, r) ==
  IF r.tag = "Ok" THEN (IF r.val THEN MapTrue(res) ELSE res)
  ELSE IF r.kind = "BrokenPipe" THEN MapTrue(res)
  ELSE IF res.tag = "Err" THEN res ELSE r

\* the arms of `match run_file(...)`: the new value of `result`
run_fold(res, r) ==
  IF r.tag = "Ok" THEN (IF r.val THEN MapTrue(res) ELSE res)
  ELSE IF r.kind = "BrokenPipe" THEN MapTrue(res) ELSE r

\* a bug: any error ends the loop
Breaks_OnAnyError(r) == r.tag = "Err"

\* `break` is taken on BrokenPipe alone
Breaks(r) == r.tag = "Err" /\ r.kind = "BrokenPipe"

\* main: `process::exit(match run() { ... })`
ExitStatus(res) ==
  IF res.tag = "Ok" THEN (IF res.val THEN 0 ELSE 1)
  ELSE CASE res.kind = "InvalidInput"     -> 3
         [] res.kind = "NotFound"         -> 4
         [] res.kind = "PermissionDenied" -> 5
         [] res.kind = "Interrupted"      -> 130
         [] OTHER                         -> 2

(***************************************************************************)
(* Idle values                                                             *)
(***************************************************************************)
NoResult == [tag |-> "None", val |-> FALSE, kind |-> "None"]

NotRead == [kind |-> "none", err |-> "None", bytes |-> <<>>]

NoFail == [at |-> 0, kind |-> "None"]

\* a pattern text the regex parser rejects
InvalidPattern == <<>>

\* the sink is only written to when a formatter runs
SinkPlans(rd) == IF rd.kind = "ok" THEN FailPlans ELSE {NoFail}

RunBuffers == SeqsUpTo(Alphabet, MaxRunBuf)

\* args.files: standard input alone (the default of args.rs 80) or 1..MaxFiles
\* named files
FileLists == {<<STDIN>>} \cup {[i \in 1..k |-> "f"] : k \in 1..MaxFiles}

(***************************************************************************)
(* SpecFormat: run_file on one input, step by step                         *)
(***************************************************************************)
InitFormat ==
  /\ options \in OptionsSet
  /\ pattern \in Patterns
  /\ path \in Locators
  /\ pc = "open"
  /\ bytesRead = NotRead
  /\ fail = NoFail
  /\ buffer = <<>>
  /\ ret = NoResult
  /\ out = <<>>
  /\ files = <<path>>
  /\ idx = 1
  /\ result = Ok(FALSE)
  /\ status = -1
  /\ attempts = <<0>>
  /\ lastRead = "none"
  /\ lastFormatted = FALSE
  /\ matchedAny = FALSE
  /\ lastError = "None"
  /\ errors = 0
  /\ brokenPipe = FALSE

runVars == <<files, idx, result, status, attempts, lastRead, lastFormatted,
             matchedAny, lastError, errors, brokenPipe>>

\* grep.rs 217-247: clear the buffer, open the file (or take stdin), read to end
OpenAndRead ==
  /\ pc = "open"
  /\ \E rd \in ReadOutcomes(path, Buffers) :
       /\ bytesRead' = rd
       /\ buffer' = rd.bytes
       /\ pc' = IF rd.kind = "ok" THEN "trim" ELSE "done"
       /\ ret' = IF rd.kind = "ok" THEN ret ELSE Err(rd.err)
  /\ UNCHANGED <<options, pattern, path, fail, out, runVars>>

\* grep.rs 250-253
TrimEndingNewline ==
  /\ pc = "trim"
  /\ buffer' = Trimmed(options, buffer)
  /\ pc' = "format"
  /\ UNCHANGED <<options, pattern, path, bytesRead, fail, ret, out, runVars>>

\* grep.rs 257
GrepFilename ==
  /\ pc = "format"
  /\ options.output = "FileName"
  /\ \E fl \in FailPlans :
       \E f \in {grep_filename(options, pattern, DisplayName(path), buffer, fl)} :
          /\ fail' = fl
          /\ ret' = f.res
          /\ out' = f.out
  /\ pc' = "done"
  /\ UNCHANGED <<options, pattern, path, bytesRead, buffer, runVars>>

\* grep.rs 258
GrepBytes ==
  /\ pc = "format"
  /\ options.output = "Bytes"
  /\ \E fl \in FailPlans :
       \E f \in {grep_bytes(options, pattern, DisplayName(path), buffer, fl)} :
          /\ fail' = fl
          /\ ret' = f.res
          /\ out' = f.out
  /\ pc' = "done"
  /\ UNCHANGED <<options, pattern, path, bytesRead, buffer, runVars>>

\* grep.rs 259
GrepOffset ==
  /\ pc = "format"
  /\ options.output = "Offset"
  /\ \E fl \in FailPlans :
       \E f \in {grep_offset(options, pattern, DisplayName(path), buffer, fl)} :
          /\ fail' = fl
          /\ ret' = f.res
          /\ out' = f.out
  /\ pc' = "done"
  /\ UNCHANGED <<options, pattern, path, bytesRead, buffer, runVars>>

NextFormat ==
  \/ OpenAndRead
  \/ TrimEndingNewline
  \/ GrepFilename
  \/ GrepBytes
  \/ GrepOffset

SpecFormat == InitFormat /\ [][NextFormat]_vars

(***************************************************************************)
(* Spec: run over the list of files, then main                             *)
(***************************************************************************)
Init ==
  /\ options \in OptionsSet
  /\ pattern \in RunPatterns \cup {InvalidPattern}
  /\ files \in FileLists
  /\ pc = "compile"
  /\ idx = 1
  /\ result = Ok(FALSE)
  /\ status = -1
  /\ attempts = [i \in 1..Len(files) |-> 0]
  /\ lastRead = "none"
  /\ lastFormatted = FALSE
  /\ matchedAny = FALSE
  /\ lastError = "None"
  /\ errors = 0
  /\ brokenPipe = FALSE
  /\ buffer = <<>>
  /\ ret = NoResult
  /\ path = ""
  /\ bytesRead = NotRead
  /\ fail = NoFail
  /\ out = <<>>

formatVars == <<path, bytesRead, fail, out>>

\* grep.rs 273-278: an invalid pattern ends run with InvalidInput
BuildPattern ==
  /\ pc = "compile"
  /\ IF pattern = InvalidPattern
     THEN /\ result' = Err("InvalidInput")
          /\ pc' = "returned"
     ELSE /\ result' = result
          /\ pc' = "loop"
  /\ UNCHANGED <<options, pattern, files, idx, status, attempts, lastRead,
                 lastFormatted, matchedAny, lastError, errors, brokenPipe,
                 buffer, ret, formatVars>>

\* grep.rs 300-315: one iteration of `for file in files`
RunFile ==
  /\ pc = "loop"
  /\ idx <= Len(files)
  /\ \E rd \in ReadOutcomes(files[idx], RunBuffers) : \E fl \in SinkPlans(rd) :
       \E r \in {run_file(options, pattern, files[idx], rd, fl)} :
          /\ result' = run_fold(result, r.res)
          /\ pc' = IF Breaks(r.res) \/ idx = Len(files) THEN "returned" ELSE "loop"
          /\ buffer' = r.buffer
          /\ ret' = r.res
          /\ lastRead' = rd.kind
          /\ lastFormatted' = r.formatted
          /\ matchedAny' = (matchedAny \/ r.res = Ok(TRUE))
          /\ brokenPipe' = (r.res.tag = "Err" /\ r.res.kind = "BrokenPipe")
          /\ errors' = IF r.res.tag = "Err" /\ r.res.kind # "BrokenPipe"
                       THEN errors + 1 ELSE errors
          /\ lastError' = IF r.res.tag = "Err" /\ r.res.kind # "BrokenPipe"
                          THEN r.res.kind ELSE lastError
  /\ idx' = idx + 1
  /\ attempts' = [attempts EXCEPT ![idx] = @ + 1]
  /\ UNCHANGED <<options, pattern, files, status, formatVars>>

\* main.rs 41-53
Exit ==
  /\ pc = "returned"
  /\ status' = ExitStatus(result)
  /\ pc' = "exited"
  /\ UNCHANGED <<options, pattern, files, idx, result, attempts, lastRead,
                 lastFormatted, matchedAny, lastError, errors, brokenPipe,
                 buffer, ret, formatVars>>

Next ==
  \/ BuildPattern
  \/ RunFile
  \/ Exit

Spec == Init /\ [][Next]_vars

(***************************************************************************)
(* Notions the properties are stated with                                  *)
(***************************************************************************)
\* a formatter has run on the view in `buffer`
Formatted == pc = "done" /\ bytesRead.kind = "ok"

\* the matches the engine yields on the view
Ms == find_iter(pattern, buffer)

\* byte k (0-based) lies inside some match
Covered(ms, k) == \E i \in 1..Len(ms) : ms[i].start <= k /\ k < ms[i].end

\* the matches tile [0, len) without a gap
FullCoverage(ms, len) == \A k \in 0..(len - 1) : Covered(ms, k)

\* first bytes of the maximal spans no match covers
MaximalHoleStarts(ms, len) ==
  {k \in 0..(len - 1) : ~Covered(ms, k) /\ (k = 0 \/ Covered(ms, k - 1))}

\* end of the i-th match (0 before the first), start of the next (len after
\* the last)
PrevEnd(ms, i) == IF i = 0 THEN 0 ELSE ms[i].end

NextStart(ms, i, len) == IF i = Len(ms) THEN len ELSE ms[i + 1].start

\* first bytes of the non-empty gaps between consecutive matches
GapStarts(ms, len) ==
  {PrevEnd(ms, i) : i \in {j \in 0..Len(ms) : NextStart(ms, j, len) > PrevEnd(ms, j)}}

HasEmptyMatch(ms) == \E i \in 1..Len(ms) : ms[i].start = ms[i].end

\* the offsets read back from the lines of offset mode
Offsets == [i \in 1..Len(out) |-> ParseHex(out[i].body)]

StrictlyIncreasing(q) == \A i \in 1..(Len(q) - 1) : q[i] < q[i + 1]

\* the pattern has an empty alternative: it matches the empty string
MatchesEmpty(pat) == \E a \in 1..Len(pat) : pat[a] = <<>>

ThisLabel == IF options.print_filename THEN DisplayName(path) ELSE ""

\* run has returned after compiling the pattern
Returned == pc \in {"returned", "exited"} /\ pattern # InvalidPattern

(***************************************************************************)
(* C2.  Byte-emission mode: `matched` is true iff at least one line was    *)
(* written, in forward and in inverse mode.                                *)
(***************************************************************************)
C2_MatchedIffWritten ==
  (Formatted /\ options.output = "Bytes" /\ ret.tag = "Ok")
    => (ret.val <=> out # <<>>)

(***************************************************************************)
(* C4.  Filename-report mode with `inverse`: the value returned is         *)
(* (NOT full_coverage) XOR non_matching, and the display name is written   *)
(* as one line exactly when it is true; stopping the hole search at the    *)
(* first gap does not change the result.                                   *)
(***************************************************************************)
C4_InverseFilename ==
  (Formatted /\ options.output = "FileName" /\ options.inverse /\ ret.tag = "Ok")
    => /\ ret.val = Xor(~FullCoverage(Ms, Len(buffer)), options.non_matching)
       /\ out = IF ret.val THEN <<NameLine(DisplayName(path))>> ELSE <<>>

\* the search stopped at a gap before the first match, with `end` short of the
\* last match's end, and the name was written
C4_Witness ==
  /\ Formatted /\ options.output = "FileName" /\ options.inverse
  /\ ~options.non_matching
  /\ Len(Ms) >= 2 /\ Ms[1].start > 0
  /\ HoleSearch(Ms, 0).end # Ms[Len(Ms)].end
  /\ ret = Ok(TRUE) /\ Len(out) = 1

(***************************************************************************)
(* C5.  Offset mode with `inverse`: the offsets emitted are strictly       *)
(* increasing, lie in [0, len(B)), each is the start of a maximal hole,    *)
(* and there are as many as maximal holes.                                 *)
(***************************************************************************)
C5_MaximalHoles ==
  (Formatted /\ options.output = "Offset" /\ options.inverse /\ ret.tag = "Ok")
    => /\ StrictlyIncreasing(Offsets)
       /\ \A i \in 1..Len(Offsets) :
            /\ Offsets[i] \in 0..(Len(buffer) - 1)
            /\ Offsets[i] \in MaximalHoleStarts(Ms, Len(buffer))
       /\ Len(Offsets) = Cardinality(MaximalHoleStarts(Ms, Len(buffer)))

(***************************************************************************)
(* C5, amended.  Offset mode with `inverse`: the offsets emitted are       *)
(* strictly increasing, lie in [0, len(B)), are uncovered bytes, and are   *)
(* exactly the starts of the non-empty gaps between consecutive matches    *)
(* (before the first, between two, after the last), one per gap.  Every    *)
(* start of a maximal hole is among them; they are exactly the starts of   *)
(* the maximal holes when no match is zero-length.                         *)
(***************************************************************************)
C5_GapStarts ==
  (Formatted /\ options.output = "Offset" /\ options.inverse /\ ret.tag = "Ok")
    => LET ms    == Ms
           offs  == Offsets
           gaps  == GapStarts(ms, Len(buffer))
           holes == MaximalHoleStarts(ms, Len(buffer))
       IN /\ StrictlyIncreasing(offs)
          /\ \A i \in 1..Len(offs) :
               /\ offs[i] \in 0..(Len(buffer) - 1)
               /\ ~Covered(ms, offs[i])
          /\ {offs[i] : i \in 1..Len(offs)} = gaps
          /\ holes \subseteq gaps
          /\ ~HasEmptyMatch(ms) => gaps = holes
          /\ ret.val = (out # <<>>)

\* a zero-length match inside a hole: more offsets than maximal holes
C5_Witness ==
  /\ Formatted /\ options.output = "Offset" /\ options.inverse /\ ret = Ok(TRUE)
  /\ HasEmptyMatch(Ms)
  /\ Len(out) > Cardinality(MaximalHoleStarts(Ms, Len(buffer)))

(***************************************************************************)
(* C6.  Empty buffer, any pattern: each forward mode (filename-report      *)
(* with non_matching false, byte-emission, offset) writes nothing and      *)
(* returns matched = false.                                                *)
(***************************************************************************)
C6_EmptyBufferSilent ==
  (Formatted /\ buffer = <<>> /\ ~options.inverse /\ ~options.non_matching
     /\ fail.at = 0)
    => (out = <<>> /\ ret = Ok(FALSE))

(***************************************************************************)
(* C6, amended.  Empty buffer, forward mode, non_matching false: for a     *)
(* pattern that does not match the empty string nothing is written and     *)
(* matched = false; for a pattern that matches the empty string the one    *)
(* zero-length match at offset 0 is reported like any other: one line is   *)
(* written (the name, an empty line of bytes, or 0x0) and matched = true.  *)
(***************************************************************************)
C6_EmptyBuffer ==
  (Formatted /\ buffer = <<>> /\ ~options.inverse /\ ~options.non_matching)
    => /\ ~MatchesEmpty(pattern) => (out = <<>> /\ ret = Ok(FALSE))
       /\ (MatchesEmpty(pattern) /\ fail.at # 1)
            => /\ ret = Ok(TRUE)
               /\ out = << CASE options.output = "FileName" ->
                                  [kind |-> "name", label |-> DisplayName(path),
                                   body |-> <<>>]
                             [] options.output = "Bytes" ->
                                  [kind |-> "bytes", label |-> ThisLabel,
                                   body |-> <<>>]
                             [] options.output = "Offset" ->
                                  [kind |-> "hex", label |-> ThisLabel,
                                   body |-> <<0>>] >>

\* byte-emission on an empty buffer reports the zero-length match
C6_Witness ==
  /\ Formatted /\ buffer = <<>> /\ bytesRead.bytes = <<>> /\ ~options.inverse
  /\ options.output = "Bytes" /\ MatchesEmpty(pattern)
  /\ ret = Ok(TRUE) /\ Len(out) = 1

(***************************************************************************)
(* C8.  run_file after a successful read: with trim_ending_newline set     *)
(* and a last byte 0x0A the view is the bytes read without that one byte,  *)
(* otherwise the bytes read; a match ending just before the trimmed        *)
(* newline is still reported; a pattern whose only match was the trimmed   *)
(* newline reports no match.                                               *)
(***************************************************************************)
BytesIn == bytesRead.bytes

\* the view has been taken from the bytes read
Viewed == pc \in {"format", "done"} /\ bytesRead.kind = "ok"

TrimCase ==
  options.trim_ending_newline /\ BytesIn # <<>> /\ BytesIn[Len(BytesIn)] = NL

MsRead == find_iter(pattern, BytesIn)

\* forward mode, sense not complemented, no write error
ForwardResult ==
  pc = "done" /\ ~options.inverse /\ ~options.non_matching /\ ret.tag = "Ok"

ViewIsTrimmed ==
  buffer = IF TrimCase THEN SubSeq(BytesIn, 1, Len(BytesIn) - 1) ELSE BytesIn

MatchBeforeNewline(m) == m.end = Len(BytesIn) - 1 /\ m.start < m.end

KeepsMatchBeforeNewline ==
  TrimCase =>
    LET msr == MsRead
        ms  == Ms
    IN \A i \in 1..Len(msr) :
         MatchBeforeNewline(msr[i])
           => /\ \E j \in 1..Len(ms) : ms[j] = msr[i]
              /\ ForwardResult => ret.val

OnlyNewlineMatched ==
  /\ TrimCase
  /\ MsRead = <<[start |-> Len(BytesIn) - 1, end |-> Len(BytesIn)]>>

C8_TrimEndingNewline ==
  Viewed
    => /\ ViewIsTrimmed
       /\ KeepsMatchBeforeNewline
       /\ OnlyNewlineMatched => (Ms = <<>> /\ (ForwardResult => ~ret.val))

(***************************************************************************)
(* C8, amended.  The view and the match before the newline are as          *)
(* claimed.  A pattern whose only match was the trimmed newline reports    *)
(* no match provided it cannot match the empty string; one that can (such  *)
(* as `\n?` on a file holding one newline) still reports a zero-length     *)
(* match in the trimmed view.                                              *)
(***************************************************************************)
C8_TrimOneNewline ==
  Viewed
    => /\ ViewIsTrimmed
       /\ KeepsMatchBeforeNewline
       /\ (OnlyNewlineMatched /\ ~MatchesEmpty(pattern))
            => (Ms = <<>> /\ (ForwardResult => ~ret.val))
       /\ (OnlyNewlineMatched /\ MatchesEmpty(pattern))
            => (Ms # <<>> /\ (ForwardResult => ret.val))

\* two trailing newlines: one is kept, and the match before the trimmed one is
\* reported
C8_Witness ==
  /\ Viewed /\ TrimCase /\ ForwardResult /\ ret = Ok(TRUE)
  /\ Len(BytesIn) >= 2 /\ BytesIn[Len(BytesIn) - 1] = NL
  /\ Len(buffer) = Len(BytesIn) - 1 /\ buffer[Len(buffer)] = NL
  /\ \E i \in 1..Len(MsRead) : MatchBeforeNewline(MsRead[i])

(***************************************************************************)
(* C10.  With non_matching false and no write error, grep_offset and       *)
(* grep_filename return the same `matched` on the same view, in forward    *)
(* and in inverse mode.                                                    *)
(***************************************************************************)
OtherMode ==
  IF options.output = "FileName"
  THEN grep_offset(options, pattern, DisplayName(path), buffer, NoFail)
  ELSE grep_filename(options, pattern, DisplayName(path), buffer, NoFail)

C10_OffsetAgreesWithFilename ==
  (Formatted /\ ~options.non_matching /\ options.output \in {"FileName", "Offset"}
     /\ ret.tag = "Ok")
    => ret = OtherMode.res

\* offset mode enumerated two holes where filename-report stops at the first
C10_Witness ==
  /\ Formatted /\ options.inverse /\ options.output = "Offset"
  /\ ret = Ok(TRUE) /\ Len(out) >= 2
  /\ HoleSearch(Ms, 0).found
  /\ OtherMode.res = Ok(TRUE) /\ Len(OtherMode.out) = 1

(***************************************************************************)
(* C1.  If at least one input's formatter reports a match, the final       *)
(* outcome of run is "matched" (status 0), even when an earlier input      *)
(* failed to open or read.                                                 *)
(***************************************************************************)
C1_MatchOverridesError ==
  (Returned /\ matchedAny)
    => (result = Ok(TRUE) /\ (pc = "exited" => status = 0))

(***************************************************************************)
(* C1, amended.  If at least one input's formatter reports a match, the    *)
(* final outcome is "matched" (status 0) exactly when no input, before or  *)
(* after it, failed with an error other than BrokenPipe; otherwise the     *)
(* outcome is the last such error (NotFound, then a match: status 4).      *)
(***************************************************************************)
C1_MatchUnlessError ==
  (Returned /\ matchedAny)
    => /\ result = IF errors > 0 THEN Err(lastError) ELSE Ok(TRUE)
       /\ pc = "exited" => (status = 0 <=> errors = 0)

\* the first file was not found, the second matched: status 4
C1_Witness ==
  /\ pc = "exited" /\ Len(files) = 2 /\ idx = 3
  /\ matchedAny /\ ret = Ok(TRUE) /\ errors = 1 /\ lastError = "NotFound"
  /\ status = 4

(***************************************************************************)
(* C3.  When a formatter fails with BrokenPipe, the final outcome of run   *)
(* is Ok(true) (status 0), whatever happened on the inputs before it.      *)
(***************************************************************************)
C3_BrokenPipeIsMatch ==
  (Returned /\ brokenPipe)
    => (result = Ok(TRUE) /\ (pc = "exited" => status = 0))

(***************************************************************************)
(* C3, amended.  When a formatter fails with BrokenPipe the loop ends at   *)
(* once, and the final outcome is Ok(true) (status 0) unless an earlier    *)
(* input's error was recorded, which is then conserved as the outcome.     *)
(***************************************************************************)
C3_BrokenPipeConservesError ==
  brokenPipe
    => /\ pc \in {"returned", "exited"}
       /\ result = IF errors > 0 THEN Err(lastError) ELSE Ok(TRUE)
       /\ pc = "exited" => (status = 0 <=> errors = 0)

\* an error on the first file, BrokenPipe on the second: the error decides
C3_Witness ==
  /\ pc = "exited" /\ brokenPipe /\ errors = 1 /\ idx = 3
  /\ result = Err(lastError) /\ status # 0

(***************************************************************************)
(* C7.  When no input matches and no BrokenPipe occurs, the final outcome  *)
(* is the error of the last input that failed, mapped by main to 4         *)
(* (NotFound), 5 (PermissionDenied), 3 (InvalidInput), 130 (Interrupted)   *)
(* or 2 (any other kind); Ok(false) (status 1) if no input failed.         *)
(***************************************************************************)
C7_LastErrorDecides ==
  (Returned /\ ~matchedAny /\ ~brokenPipe)
    => /\ result = IF errors > 0 THEN Err(lastError) ELSE Ok(FALSE)
       /\ (ret.tag = "Err" => lastError = ret.kind)
       /\ pc = "exited" =>
            status = IF errors = 0 THEN 1
                     ELSE CASE lastError = "NotFound"         -> 4
                            [] lastError = "PermissionDenied" -> 5
                            [] lastError = "InvalidInput"     -> 3
                            [] lastError = "Interrupted"      -> 130
                            [] OTHER                          -> 2

\* two files failed; the second, PermissionDenied, decides: status 5
C7_Witness ==
  /\ pc = "exited" /\ ~matchedAny /\ ~brokenPipe
  /\ errors = 2 /\ ret = Err("PermissionDenied") /\ status = 5

(***************************************************************************)
(* C9.  The inputs are attempted one at a time in the order given, each    *)
(* at most once; a failed open or read, and a write error other than       *)
(* BrokenPipe, let the next input be processed; BrokenPipe is the only     *)
(* event after which remaining inputs are never read; no formatter is      *)
(* invoked for an input whose open or read failed.                         *)
(***************************************************************************)
C9_InOrderOnce ==
  /\ idx \in 1..(Len(files) + 1)
  /\ \A j \in 1..Len(files) : attempts[j] = IF j < idx THEN 1 ELSE 0
  /\ lastFormatted <=> lastRead = "ok"
  /\ (ret.tag = "Err" /\ ret.kind # "BrokenPipe" /\ idx <= Len(files))
       => pc = "loop"
  /\ (pc \in {"returned", "exited"} /\ pattern # InvalidPattern
        /\ idx <= Len(files))
       => brokenPipe
  /\ brokenPipe => pc \in {"returned", "exited"}

\* the first file failed, the second was read and formatted all the same
C9_Witness ==
  /\ Len(files) = 2 /\ idx = 3 /\ errors = 1
  /\ lastRead = "ok" /\ lastFormatted /\ ret.tag = "Ok"
  /\ attempts = <<1, 1>>

====
